---- MODULE Spec2Model ----
(***************************************************************************)
(* Model of the connect/prometheus RPC interceptor                         *)
(* (src/connect/prometheus/interceptor.go).                                *)
(*                                                                         *)
(* Go strings that the code splits are modelled as sequences of atoms: the *)
(* atom "/" is the separator character, every other atom is a non-empty    *)
(* run of characters holding no '/'.  Segments and label values are TLA+   *)
(* strings (the atoms of a segment concatenated).                          *)
(*                                                                         *)
(* A prometheus CounterVec / HistogramVec is a function from the tuples of *)
(* label values whose child exists to the child's value: a counter's       *)
(* count, a histogram's number of observations.  WithLabelValues creates   *)
(* the child at zero when it is missing; Inc and Observe are atomic.       *)
(***************************************************************************)
EXTENDS Integers, Sequences, FiniteSets, TLC

\* ------------------------------------------------------------------ bounds
NumCalls == 2      \* invocations of the executor returned by WrapUnary
MaxLen   == 6      \* longest procedure identifier given to the parser alone
MaxShape == 5      \* largest connect.StreamType value given to streamType
MaxCode  == 17     \* largest connect.Code value carried by an error

\* ------------------------------------------------- connect-go's constants
StreamTypeUnary  == 0
StreamTypeClient == 1
StreamTypeServer == 2
StreamTypeBidi   == 3
CodeUnknown      == 2
CodeInternal     == 13

\* ------------------------------------------------------------------ values
Calls      == 1..NumCalls
Slash      == "/"
Alphabet   == {Slash, "a", "b"}
NilResp    == "nil"
\* Every invocation has a context and a request of its own, and the wrapped
\* executor answers it with a response of its own.
CtxOf(c)   == "ctx" \o ToString(c)
ReqOf(c)   == "req" \o ToString(c)
RespOf(c)  == "resp" \o ToString(c)

\* The identifiers the calls of the concurrent specification carry.
Procedures ==
    { <<Slash, "helloworld.Greeter", Slash, "SayHello">>,
      <<Slash, "helloworld.Greeter", Slash, "SayBye">>,
      <<Slash, "bad">> }

\* A Go error value: nil, an error that carries no connect code, a
\* *connect.Error with a code, or an error wrapping a *connect.Error.
NilErr         == [kind |-> "nil", code |-> 0]
PlainErr       == [kind |-> "plain", code |-> 0]
ConnectErr(c)  == [kind |-> "connect", code |-> c]
WrappedErr(c)  == [kind |-> "wrapped", code |-> c]
Errors ==
    {NilErr, PlainErr}
        \cup {ConnectErr(c) : c \in 0..MaxCode}
        \cup {WrappedErr(c) : c \in 0..MaxCode}

\* What the wrapped executor may return to invocation c: its response and
\* no error, or no response and a cancellation, a deadline or a plain error.
NextOutcomes(c) ==
    {[resp |-> RespOf(c), err |-> NilErr]}
        \cup {[resp |-> NilResp, err |-> e] :
                  e \in {ConnectErr(1), ConnectErr(4), PlainErr}}

\* --------------------------------------------------------------- strings
\* strings.Split(s, "/"): one more segment than s has separators.
RECURSIVE Split(_)
Split(s) ==
    IF s = <<>> THEN <<"">>
    ELSE LET rest == Split(Tail(s)) IN
         IF Head(s) = Slash
             THEN <<"">> \o rest
             ELSE <<Head(s) \o Head(rest)>> \o Tail(rest)

\* Variant of the check: only too few segments are refused.
ParseGuessLabels(p) ==
    LET procedure == Split(p) IN
    IF Len(procedure) < 3
        THEN [ok |-> FALSE, service |-> "", method |-> ""]
        ELSE [ok |-> TRUE, service |-> procedure[2], method |-> procedure[3]]

\* interceptor.go:99-106: the split, the length check, the two labels.
ParseProcedure(p) ==
    LET procedure == Split(p) IN
    IF Len(procedure) # 3
        THEN [ok |-> FALSE, service |-> "", method |-> ""]
        ELSE [ok |-> TRUE, service |-> procedure[2], method |-> procedure[3]]

\* connect.Code.String(): the sixteen defined codes have names.
CodeNames ==
    << "canceled", "unknown", "invalid_argument", "deadline_exceeded",
       "not_found", "already_exists", "permission_denied",
       "resource_exhausted", "failed_precondition", "aborted",
       "out_of_range", "unimplemented", "internal", "unavailable",
       "data_loss", "unauthenticated" >>

CodeString(c) ==
    IF c \in DOMAIN CodeNames THEN CodeNames[c] ELSE "code_" \o ToString(c)

\* connect.CodeOf(err): the code of the *connect.Error in err's chain,
\* CodeUnknown when there is none.
CodeOf(err) ==
    IF err.kind \in {"connect", "wrapped"} THEN err.code ELSE CodeUnknown

\* Variant of code: an error carrying no connect code is labelled "ok".
codeOkForErrors(err) ==
    IF err.kind \in {"nil", "plain"} THEN "ok" ELSE CodeString(CodeOf(err))

\* interceptor.go:154-159
code(err) ==
    IF err = NilErr THEN "ok" ELSE CodeString(CodeOf(err))

\* Variant of streamType: two labels exchanged, "unary" as the default.
streamTypeShifted(t) ==
    CASE t = StreamTypeUnary  -> "unary"
      [] t = StreamTypeClient -> "server_stream"
      [] t = StreamTypeServer -> "client_stream"
      [] t = StreamTypeBidi   -> "bidi_stream"
      [] OTHER                -> "unary"

\* interceptor.go:161-174
streamType(t) ==
    CASE t = StreamTypeUnary  -> "unary"
      [] t = StreamTypeClient -> "client_stream"
      [] t = StreamTypeServer -> "server_stream"
      [] t = StreamTypeBidi   -> "bidi_stream"
      [] OTHER                -> ""

\* --------------------------------------------------------- metric vectors
\* Variant of WithLabelValues: the vector is made anew around the child.
WithLabelValuesFresh(vec, lvs) == (lvs :> 0)

\* MetricVec.WithLabelValues: the child for lvs, created at zero if missing.
WithLabelValues(vec, lvs) ==
    IF lvs \in DOMAIN vec THEN vec ELSE vec @@ (lvs :> 0)

\* WithLabelValues(lvs...).Inc() and WithLabelValues(lvs...).Observe(d).
Inc(vec, lvs) ==
    [WithLabelValues(vec, lvs) EXCEPT ![lvs] = @ + 1]

Observe(vec, lvs) ==
    [WithLabelValues(vec, lvs) EXCEPT ![lvs] = @ + 1]

\* The value a scrape reads for lvs: a missing child reads as zero.
Value(vec, lvs) == IF lvs \in DOMAIN vec THEN vec[lvs] ELSE 0

EmptyVec == [lvs \in {} |-> 0]

\* ---------------------------------------------------------------- registry
\* interceptor.go:25-28
labelCode    == "grpc_code"
labelMethod  == "grpc_method"
labelService == "grpc_service"
labelType    == "grpc_type"

\* Variant of Families: the label keys without their grpc_ prefix.
FamiliesShortLabels ==
    << [field |-> "clientStarted", name |-> "grpc_client_started_total",
        kind |-> "counter", labels |-> <<"method", "service", "type">>],
       [field |-> "clientHandled", name |-> "grpc_client_handled_total",
        kind |-> "counter",
        labels |-> <<labelCode, "method", "service", "type">>],
       [field |-> "clientDuration",
        name |-> "grpc_client_handling_seconds_bucket",
        kind |-> "histogram", labels |-> <<"method", "service", "type">>],
       [field |-> "serverStarted", name |-> "grpc_server_started_total",
        kind |-> "counter", labels |-> <<"method", "service", "type">>],
       [field |-> "serverHandled", name |-> "grpc_server_handled_total",
        kind |-> "counter",
        labels |-> <<labelCode, "method", "service", "type">>],
       [field |-> "serverDuration",
        name |-> "grpc_server_handling_seconds_bucket",
        kind |-> "histogram", labels |-> <<"method", "service", "type">>] >>

\* interceptor.go:30-82: the six vectors NewInterceptor declares, in order,
\* each with the Interceptor field it is stored in.
Families ==
    << [field |-> "clientStarted", name |-> "grpc_client_started_total",
        kind |-> "counter",
        labels |-> <<labelMethod, labelService, labelType>>],
       [field |-> "clientHandled", name |-> "grpc_client_handled_total",
        kind |-> "counter",
        labels |-> <<labelCode, labelMethod, labelService, labelType>>],
       [field |-> "clientDuration",
        name |-> "grpc_client_handling_seconds_bucket",
        kind |-> "histogram",
        labels |-> <<labelMethod, labelService, labelType>>],
       [field |-> "serverStarted", name |-> "grpc_server_started_total",
        kind |-> "counter",
        labels |-> <<labelMethod, labelService, labelType>>],
       [field |-> "serverHandled", name |-> "grpc_server_handled_total",
        kind |-> "counter",
        labels |-> <<labelCode, labelMethod, labelService, labelType>>],
       [field |-> "serverDuration",
        name |-> "grpc_server_handling_seconds_bucket",
        kind |-> "histogram",
        labels |-> <<labelMethod, labelService, labelType>>] >>

\* What a registry holds of a declared family.
Desc(f) == [name |-> f.name, kind |-> f.kind, labels |-> f.labels]

\* Variant of Register: a family whose shape is already registered is
\* accepted again without effect.
RegisterIdempotent(reg, d) ==
    IF d \in reg
        THEN [registry |-> reg, panicked |-> FALSE]
        ELSE IF \E e \in reg : e.name = d.name
            THEN [registry |-> reg, panicked |-> TRUE]
            ELSE [registry |-> reg \cup {d}, panicked |-> FALSE]

\* promauto.With(reg).NewCounterVec / NewHistogramVec (interceptor.go:30,
\* 38, 47, 57, 65, 74): the vector is registered with MustRegister, which
\* panics when a family of that name is registered already, whatever its
\* shape.
Register(reg, d) ==
    IF \E e \in reg : e.name = d.name
        THEN [registry |-> reg, panicked |-> TRUE]
        ELSE [registry |-> reg \cup {d}, panicked |-> FALSE]

\* interceptor.go:24-93: the six declarations in order; a panic ends the
\* function and no Interceptor is returned.
RECURSIVE RegisterAll(_, _)
RegisterAll(reg, fams) ==
    IF fams = <<>> THEN [registry |-> reg, panicked |-> FALSE]
    ELSE LET r == Register(reg, Desc(Head(fams))) IN
         IF r.panicked THEN r ELSE RegisterAll(r.registry, Tail(fams))

NewInterceptor(reg) == RegisterAll(reg, Families)

\* ------------------------------------------------------------------- state
VARIABLES
    calls,            \* per invocation: position and call-scoped values
    clientStarted, clientHandled, clientDuration,
    serverStarted, serverHandled, serverDuration,
    streamWrap,       \* outcome of the last WrapStreaming* request
    registry,         \* the families registered with the Registerer
    setup,            \* the last declaration made after construction
    fn, fnDone,       \* the pure function applied alone, and whether it ran
    argProcedure, argShape, argErr,
    outParse, outLabel

metrics ==
    << clientStarted, clientHandled, clientDuration,
       serverStarted, serverHandled, serverDuration >>

fnVars == << fn, fnDone, argProcedure, argShape, argErr, outParse, outLabel >>

regVars == << registry, setup >>

vars == << calls, metrics, streamWrap, fnVars, regVars >>

NoSetup == [op |-> "none", family |-> Desc(Families[1]), panicked |-> FALSE]

IdleCall ==
    [ pc |-> "Idle", procedure |-> <<>>, isClient |-> FALSE,
      shape |-> StreamTypeUnary, ctx |-> "none", req |-> "none",
      service |-> "", method |-> "",
      nextCalls |-> 0, nextCtx |-> "none", nextReq |-> "none",
      nextResp |-> NilResp, nextErr |-> NilErr,
      resp |-> NilResp, err |-> NilErr ]

NoParse == [ok |-> FALSE, service |-> "", method |-> ""]

\* NewInterceptor (interceptor.go:24-93): six empty vectors.
MetricsInit ==
    /\ clientStarted = EmptyVec /\ clientHandled = EmptyVec
    /\ clientDuration = EmptyVec
    /\ serverStarted = EmptyVec /\ serverHandled = EmptyVec
    /\ serverDuration = EmptyVec

FnIdle ==
    /\ fn = "none" /\ fnDone = FALSE
    /\ argProcedure = <<>> /\ argShape = StreamTypeUnary /\ argErr = NilErr
    /\ outParse = NoParse /\ outLabel = ""

Init ==
    /\ calls = [c \in Calls |-> IdleCall]
    /\ MetricsInit
    /\ streamWrap = [requested |-> "none", panicked |-> FALSE, executor |-> "none"]
    /\ registry = NewInterceptor({}).registry
    /\ setup = NoSetup
    /\ FnIdle

\* Variant of Call: a malformed call is counted as started, without labels.
CallCountsMalformed(c) ==
    /\ calls[c].pc = "Idle"
    /\ IF c = 1 THEN TRUE ELSE calls[c - 1].pc # "Idle"
    /\ \E p \in Procedures, client \in BOOLEAN :
         LET parsed == ParseProcedure(p)
             k == [calls[c] EXCEPT !.procedure = p, !.isClient = client,
                                   !.shape = StreamTypeUnary,
                                   !.ctx = CtxOf(c), !.req = ReqOf(c)]
         IN /\ calls' = [calls EXCEPT ![c] =
                   IF parsed.ok
                       THEN [k EXCEPT !.pc = "Created",
                                      !.service = parsed.service,
                                      !.method = parsed.method]
                       ELSE [k EXCEPT !.pc = "Rejected",
                                      !.resp = NilResp,
                                      !.err = ConnectErr(CodeInternal)]]
            /\ serverStarted' =
                   IF parsed.ok THEN serverStarted
                   ELSE Inc(serverStarted, <<"", "", streamType(StreamTypeUnary)>>)
    /\ UNCHANGED << clientStarted, clientHandled, clientDuration,
                    serverHandled, serverDuration, streamWrap, fnVars, regVars >>

\* ------------------------------------------------- the executor of WrapUnary
\* interceptor.go:96-106: the executor is invoked with (ctx, req); it reads
\* the spec, splits the procedure and returns early when it is malformed.
\* Invocations are numbered in the order in which they begin.
Call(c) ==
    /\ calls[c].pc = "Idle"
    /\ IF c = 1 THEN TRUE ELSE calls[c - 1].pc # "Idle"
    /\ \E p \in Procedures, client \in BOOLEAN :
         LET parsed == ParseProcedure(p)
             k == [calls[c] EXCEPT !.procedure = p, !.isClient = client,
                                   !.shape = StreamTypeUnary,
                                   !.ctx = CtxOf(c), !.req = ReqOf(c)]
         IN calls' = [calls EXCEPT ![c] =
                IF parsed.ok
                    THEN [k EXCEPT !.pc = "Created",
                                   !.service = parsed.service,
                                   !.method = parsed.method]
                    ELSE [k EXCEPT !.pc = "Rejected",
                                   !.resp = NilResp,
                                   !.err = ConnectErr(CodeInternal)]]
    /\ UNCHANGED << metrics, streamWrap, fnVars, regVars >>

\* Variant of Labels: the method label is taken from the request.
LabelsFromRequest(k) == << k.req, k.service, streamType(k.shape) >>

\* Variant of Labels: method and service exchanged.
LabelsSwapped(k) == << k.service, k.method, streamType(k.shape) >>

\* The label values of the started counters and duration histograms.
Labels(k) == << k.method, k.service, streamType(k.shape) >>

\* The label values of the handled counters.
HandledLabels(k) ==
    << code(k.nextErr), k.method, k.service, streamType(k.shape) >>

\* Variant of RecordStarted: both roles increment the server's counter.
RecordStartedServerOnly(c) ==
    /\ calls[c].pc = "Created"
    /\ serverStarted' = Inc(serverStarted, Labels(calls[c]))
    /\ calls' = [calls EXCEPT ![c].pc = "StartedRecorded"]
    /\ UNCHANGED << clientStarted, clientHandled, clientDuration,
                    serverHandled, serverDuration, streamWrap, fnVars,
                    regVars >>

\* Variant of RecordStarted: the update waits while another call is between
\* its own started update and its return, as under a lock held across next.
RecordStartedSerialized(c) ==
    /\ calls[c].pc = "Created"
    /\ \A d \in Calls \ {c} :
          calls[d].pc \notin {"StartedRecorded", "Executing", "NextReturned",
                              "DurationRecorded", "CompletedRecorded"}
    /\ IF calls[c].isClient
           THEN /\ clientStarted' = WithLabelValues(clientStarted, Labels(calls[c]))
                /\ UNCHANGED serverStarted
           ELSE /\ serverStarted' = Inc(serverStarted, Labels(calls[c]))
                /\ UNCHANGED clientStarted
    /\ calls' = [calls EXCEPT ![c].pc = "StartedRecorded"]
    /\ UNCHANGED << clientHandled, clientDuration, serverHandled,
                    serverDuration, streamWrap, fnVars, regVars >>

\* interceptor.go:108-120: the client branch selects the child and does not
\* increment it, the server branch increments it.
RecordStarted(c) ==
    /\ calls[c].pc = "Created"
    /\ IF calls[c].isClient
           THEN /\ clientStarted' = WithLabelValues(clientStarted, Labels(calls[c]))
                /\ UNCHANGED serverStarted
           ELSE /\ serverStarted' = Inc(serverStarted, Labels(calls[c]))
                /\ UNCHANGED clientStarted
    /\ calls' = [calls EXCEPT ![c].pc = "StartedRecorded"]
    /\ UNCHANGED << clientHandled, clientDuration, serverHandled,
                    serverDuration, streamWrap, fnVars, regVars >>

\* interceptor.go:122: next(ctx, req) is called.
InvokeNext(c) ==
    /\ calls[c].pc = "StartedRecorded"
    /\ calls' = [calls EXCEPT ![c].pc = "Executing",
                              ![c].nextCalls = @ + 1,
                              ![c].nextCtx = calls[c].ctx,
                              ![c].nextReq = calls[c].req]
    /\ UNCHANGED << metrics, streamWrap, fnVars, regVars >>

\* interceptor.go:122: next returns its response and error.
NextReturns(c) ==
    /\ calls[c].pc = "Executing"
    /\ \E o \in NextOutcomes(c) :
         calls' = [calls EXCEPT ![c].pc = "NextReturned",
                                ![c].nextResp = o.resp,
                                ![c].nextErr = o.err]
    /\ UNCHANGED << metrics, streamWrap, fnVars, regVars >>

\* interceptor.go:124-129 and 136-141
ObserveDuration(c) ==
    /\ calls[c].pc = "NextReturned"
    /\ IF calls[c].isClient
           THEN /\ clientDuration' = Observe(clientDuration, Labels(calls[c]))
                /\ UNCHANGED serverDuration
           ELSE /\ serverDuration' = Observe(serverDuration, Labels(calls[c]))
                /\ UNCHANGED clientDuration
    /\ calls' = [calls EXCEPT ![c].pc = "DurationRecorded"]
    /\ UNCHANGED << clientStarted, clientHandled, serverStarted,
                    serverHandled, streamWrap, fnVars, regVars >>

\* Variant of RecordHandled: only successful calls are counted.
RecordHandledOkOnly(c) ==
    /\ calls[c].pc = "DurationRecorded"
    /\ IF calls[c].nextErr # NilErr
           THEN UNCHANGED << clientHandled, serverHandled >>
           ELSE IF calls[c].isClient
               THEN /\ clientHandled' = Inc(clientHandled, HandledLabels(calls[c]))
                    /\ UNCHANGED serverHandled
               ELSE /\ serverHandled' = Inc(serverHandled, HandledLabels(calls[c]))
                    /\ UNCHANGED clientHandled
    /\ calls' = [calls EXCEPT ![c].pc = "CompletedRecorded"]
    /\ UNCHANGED << clientStarted, clientDuration, serverStarted,
                    serverDuration, streamWrap, fnVars, regVars >>

\* interceptor.go:130-135 and 142-147
RecordHandled(c) ==
    /\ calls[c].pc = "DurationRecorded"
    /\ IF calls[c].isClient
           THEN /\ clientHandled' = Inc(clientHandled, HandledLabels(calls[c]))
                /\ UNCHANGED serverHandled
           ELSE /\ serverHandled' = Inc(serverHandled, HandledLabels(calls[c]))
                /\ UNCHANGED clientHandled
    /\ calls' = [calls EXCEPT ![c].pc = "CompletedRecorded"]
    /\ UNCHANGED << clientStarted, clientDuration, serverStarted,
                    serverDuration, streamWrap, fnVars, regVars >>

\* Variant of Return: the error of the wrapped executor is dropped.
ReturnSwallowsError(c) ==
    /\ calls[c].pc = "CompletedRecorded"
    /\ calls' = [calls EXCEPT ![c].pc = "Returned",
                              ![c].resp = calls[c].nextResp,
                              ![c].err = NilErr]
    /\ UNCHANGED << metrics, streamWrap, fnVars, regVars >>

\* interceptor.go:150
Return(c) ==
    /\ calls[c].pc = "CompletedRecorded"
    /\ calls' = [calls EXCEPT ![c].pc = "Returned",
                              ![c].resp = calls[c].nextResp,
                              ![c].err = calls[c].nextErr]
    /\ UNCHANGED << metrics, streamWrap, fnVars, regVars >>

\* ------------------------------------------------------ streaming wrappers
\* Variant of WrapStreaming: next is handed back uninstrumented.
WrapStreamingPassThrough(kind) ==
    [requested |-> kind, panicked |-> FALSE, executor |-> "next"]

\* interceptor.go:176-179 and 181-184: both panic before returning.
WrapStreaming(kind) ==
    [requested |-> kind, panicked |-> TRUE, executor |-> "none"]

WrapStreamingClient ==
    /\ streamWrap' = WrapStreaming("client")
    /\ streamWrap' # streamWrap
    /\ UNCHANGED << calls, metrics, fnVars, regVars >>

WrapStreamingHandler ==
    /\ streamWrap' = WrapStreaming("handler")
    /\ streamWrap' # streamWrap
    /\ UNCHANGED << calls, metrics, fnVars, regVars >>

Next ==
    \/ \E c \in Calls : Call(c)
    \/ \E c \in Calls : RecordStarted(c)
    \/ \E c \in Calls : InvokeNext(c)
    \/ \E c \in Calls : NextReturns(c)
    \/ \E c \in Calls : ObserveDuration(c)
    \/ \E c \in Calls : RecordHandled(c)
    \/ \E c \in Calls : Return(c)
    \/ WrapStreamingClient
    \/ WrapStreamingHandler

Spec == Init /\ [][Next]_vars

\* --------------------------------------- the pure functions applied alone
Strings == UNION {[1..n -> Alphabet] : n \in 0..MaxLen}

InitFn ==
    /\ calls = [c \in Calls |-> IdleCall]
    /\ MetricsInit
    /\ streamWrap = [requested |-> "none", panicked |-> FALSE, executor |-> "none"]
    /\ registry = NewInterceptor({}).registry
    /\ setup = NoSetup
    /\ fnDone = FALSE
    /\ outParse = NoParse /\ outLabel = ""
    /\ \/ /\ fn = "parse"
          /\ argProcedure \in Strings
          /\ argShape = StreamTypeUnary /\ argErr = NilErr
       \/ /\ fn = "streamType"
          /\ argShape \in 0..MaxShape
          /\ argProcedure = <<>> /\ argErr = NilErr
       \/ /\ fn = "code"
          /\ argErr \in Errors
          /\ argProcedure = <<>> /\ argShape = StreamTypeUnary

ApplyParse ==
    /\ fn = "parse" /\ ~fnDone
    /\ outParse' = ParseProcedure(argProcedure)
    /\ fnDone' = TRUE
    /\ UNCHANGED << calls, metrics, streamWrap, regVars, fn, argProcedure, argShape,
                    argErr, outLabel >>

ApplyStreamType ==
    /\ fn = "streamType" /\ ~fnDone
    /\ outLabel' = streamType(argShape)
    /\ fnDone' = TRUE
    /\ UNCHANGED << calls, metrics, streamWrap, regVars, fn, argProcedure, argShape,
                    argErr, outParse >>

ApplyCode ==
    /\ fn = "code" /\ ~fnDone
    /\ outLabel' = code(argErr)
    /\ fnDone' = TRUE
    /\ UNCHANGED << calls, metrics, streamWrap, regVars, fn, argProcedure, argShape,
                    argErr, outParse >>

NextFn == ApplyParse \/ ApplyStreamType \/ ApplyCode

SpecFn == InitFn /\ [][NextFn]_vars

\* ------------------------------------ declarations made after construction
\* Families other code of the process may register with the same Registerer.
OtherFamilies ==
    { [name |-> "go_goroutines", kind |-> "gauge", labels |-> <<>>],
      [name |-> "http_requests_total", kind |-> "counter",
       labels |-> <<"code", "method">>] }

FamilySet == {Desc(Families[i]) : i \in DOMAIN Families}

\* The names of the six families, each declared with other label keys.
ConflictingFamilies ==
    {[d EXCEPT !.labels = <<"method", "service", "type">>] : d \in FamilySet}
        \ FamilySet

Declarable == FamilySet \cup ConflictingFamilies \cup OtherFamilies

\* Values the six vectors hold after no call, after one successful server
\* call, and after a cancelled client call as well.
SnapshotTuple == <<"SayHello", "helloworld.Greeter", streamType(StreamTypeUnary)>>

Snapshots ==
    { <<EmptyVec, EmptyVec, EmptyVec, EmptyVec, EmptyVec, EmptyVec>>,
      <<EmptyVec, EmptyVec, EmptyVec,
        Inc(EmptyVec, SnapshotTuple),
        Inc(EmptyVec, <<code(NilErr)>> \o SnapshotTuple),
        Observe(EmptyVec, SnapshotTuple)>>,
      <<WithLabelValues(EmptyVec, SnapshotTuple),
        Inc(EmptyVec, <<code(ConnectErr(1))>> \o SnapshotTuple),
        Observe(EmptyVec, SnapshotTuple),
        Inc(EmptyVec, SnapshotTuple),
        Inc(EmptyVec, <<code(NilErr)>> \o SnapshotTuple),
        Observe(EmptyVec, SnapshotTuple)>> }

\* After NewInterceptor(reg) has returned, with no call in progress.
InitReg ==
    /\ calls = [c \in Calls |-> IdleCall]
    /\ \E m \in Snapshots :
          /\ clientStarted = m[1] /\ clientHandled = m[2]
          /\ clientDuration = m[3]
          /\ serverStarted = m[4] /\ serverHandled = m[5]
          /\ serverDuration = m[6]
    /\ streamWrap = [requested |-> "none", panicked |-> FALSE, executor |-> "none"]
    /\ \E others \in SUBSET OtherFamilies :
          registry = NewInterceptor(others).registry
    /\ setup = NoSetup
    /\ FnIdle

\* NewInterceptor is run once more against the same Registerer.
NewInterceptorAgain ==
    /\ LET r == NewInterceptor(registry) IN
         /\ registry' = r.registry
         /\ setup' = [op |-> "NewInterceptor", family |-> Desc(Families[1]),
                      panicked |-> r.panicked]
    /\ UNCHANGED << calls, metrics, streamWrap, fnVars >>

\* A family is declared with the same Registerer through promauto.
Declare(d) ==
    /\ LET r == Register(registry, d) IN
         /\ registry' = r.registry
         /\ setup' = [op |-> "declare", family |-> d, panicked |-> r.panicked]
    /\ UNCHANGED << calls, metrics, streamWrap, fnVars >>

NextReg ==
    \/ NewInterceptorAgain
    \/ \E d \in Declarable : Declare(d)

SpecReg == InitReg /\ [][NextReg]_vars

\* =================================================================== claims
\* Readings of the state the claims are stated in.
StartedOf(client)  == IF client THEN clientStarted ELSE serverStarted
HandledOf(client)  == IF client THEN clientHandled ELSE serverHandled
DurationOf(client) == IF client THEN clientDuration ELSE serverDuration

RECURSIVE SumOver(_, _)
SumOver(f, S) ==
    IF S = {} THEN 0
    ELSE LET x == CHOOSE y \in S : TRUE IN f[x] + SumOver(f, S \ {x})

\* The handled counter of a (method, service, type) tuple, over all codes.
HandledSum(client, lvs) ==
    LET vec == HandledOf(client) IN
    SumOver(vec, {t \in DOMAIN vec : <<t[2], t[3], t[4]>> = lvs})

\* Every (method, service, type) tuple some family of the role has a child for.
TuplesOf(client) ==
    DOMAIN StartedOf(client) \cup DOMAIN DurationOf(client)
        \cup {<<t[2], t[3], t[4]>> : t \in DOMAIN HandledOf(client)}

\* The tuple and the code label a well-formed call of the concurrent
\* specification is expected to be counted under, read off the identifier
\* /S/M and the returned error.
ExpectedTuple(k) == << k.procedure[4], k.procedure[2], "unary" >>

ExpectedCode(err) ==
    CASE err = NilErr        -> "ok"
      [] err = ConnectErr(1) -> "canceled"
      [] err = ConnectErr(4) -> "deadline_exceeded"
      [] err = PlainErr      -> "unknown"

WellFormedCalls == {c \in Calls : calls[c].pc \notin {"Idle", "Rejected"}}

AfterStarted ==
    {"StartedRecorded", "Executing", "NextReturned", "DurationRecorded",
     "CompletedRecorded", "Returned"}
AfterNextCalled ==
    {"Executing", "NextReturned", "DurationRecorded", "CompletedRecorded",
     "Returned"}
AfterDuration == {"DurationRecorded", "CompletedRecorded", "Returned"}
AfterHandled  == {"CompletedRecorded", "Returned"}

CallsAt(client, lvs, pcs) ==
    {c \in WellFormedCalls :
        /\ calls[c].isClient = client
        /\ ExpectedTuple(calls[c]) = lvs
        /\ calls[c].pc \in pcs}

CallsOfRole(client, pcs) ==
    {c \in WellFormedCalls : calls[c].isClient = client /\ calls[c].pc \in pcs}

ExpectedTuples == {ExpectedTuple(calls[c]) : c \in WellFormedCalls}

\* C1: in every reachable state, for every role and every (method, service,
\* type) tuple, the started counter is at least the handled counter summed
\* over all codes.
C1_StartedAtLeastHandled ==
    \A client \in BOOLEAN :
        \A lvs \in TuplesOf(client) :
            Value(StartedOf(client), lvs) >= HandledSum(client, lvs)

\* C2: in either role, every well-formed call has increased the role's
\* started counter of its tuple by exactly 1 by the time the wrapped executor
\* is invoked: the counter equals the number of calls of that role and tuple
\* that have passed the started update.
C2_StartedCountsEveryCall ==
    \A client \in BOOLEAN :
        \A lvs \in TuplesOf(client) \cup ExpectedTuples :
            Value(StartedOf(client), lvs)
                = Cardinality(CallsAt(client, lvs, AfterStarted))

\* C3: once NumCalls concurrent calls of one role and one tuple, whose
\* wrapped executor succeeded every time, have all returned, the started
\* counter, the "ok" handled counter and the duration histogram's observation
\* count of that tuple all equal NumCalls.
C3_AllSucceededCountsN ==
    \A client \in BOOLEAN :
        \A lvs \in ExpectedTuples :
            ( /\ CallsAt(client, lvs, {"Returned"}) = Calls
              /\ \A c \in Calls : calls[c].nextErr = NilErr )
            => /\ Value(StartedOf(client), lvs) = NumCalls
               /\ Value(HandledOf(client), <<"ok">> \o lvs) = NumCalls
               /\ Value(DurationOf(client), lvs) = NumCalls

\* C4: a call whose identifier is malformed ends rejected, with a nil
\* response and an internal error, without the wrapped executor ever being
\* invoked; the step that rejects it changes none of the six families, and a
\* rejected call takes no further step.
C4_MalformedRejected ==
    /\ [](\A c \in Calls :
            /\ (calls[c].pc # "Idle" /\ calls[c].procedure = <<Slash, "bad">>)
                   => calls[c].pc = "Rejected"
            /\ calls[c].pc = "Rejected"
                   => /\ calls[c].resp = NilResp
                      /\ calls[c].err = ConnectErr(CodeInternal)
                      /\ calls[c].nextCalls = 0)
    /\ [][\A c \in Calls :
            /\ (calls[c].pc = "Idle" /\ calls'[c].pc = "Rejected")
                   => metrics' = metrics
            /\ calls[c].pc = "Rejected" => calls'[c] = calls[c]]_vars

\* C4 witness: calls of both roles were rejected while another call had
\* already been counted.
C4_Witness ==
    \E c, d \in Calls :
        /\ calls[c].pc = "Rejected"
        /\ calls[c].procedure = <<Slash, "bad">>
        /\ calls[d].pc = "Returned"
        /\ serverHandled # EmptyVec

\* The positions of the separator in an identifier, and the concatenation of
\* a run of atoms.
SlashPos(p) == {i \in 1..Len(p) : p[i] = Slash}

RECURSIVE Join(_)
Join(atoms) == IF atoms = <<>> THEN "" ELSE Head(atoms) \o Join(Tail(atoms))

\* p is "/" S "/" M with S non-empty and neither S nor M holding a "/".
IsSlashSM(p) ==
    /\ Len(p) >= 3
    /\ p[1] = Slash
    /\ \E j \in 3..Len(p) : SlashPos(p) = {1, j}

ServiceOf(p) ==
    LET j == CHOOSE x \in SlashPos(p) : \A y \in SlashPos(p) : y <= x
        i == CHOOSE x \in SlashPos(p) : \A y \in SlashPos(p) : x <= y
    IN Join(SubSeq(p, i + 1, j - 1))

MethodOf(p) ==
    LET j == CHOOSE x \in SlashPos(p) : \A y \in SlashPos(p) : y <= x
    IN Join(SubSeq(p, j + 1, Len(p)))

\* C5 (as stated): the check accepts an identifier if and only if it is /S/M
\* with non-empty S and no "/" in S or M, and then yields exactly (S, M).
C5_AcceptsExactlySlashSM ==
    (fn = "parse" /\ fnDone) =>
        /\ outParse.ok <=> IsSlashSM(argProcedure)
        /\ IsSlashSM(argProcedure) =>
               /\ outParse.service = ServiceOf(argProcedure)
               /\ outParse.method = MethodOf(argProcedure)

\* C5 (amended): the check accepts an identifier if and only if it holds
\* exactly two "/" (it splits into exactly three segments), and then yields
\* the text between the two as the service and the text after the second as
\* the method; so every /S/M is accepted with exactly (S, M), and /onlyone,
\* noslash and /a/b/c are rejected.
C5_AcceptsExactlyTwoSlashes ==
    (fn = "parse" /\ fnDone) =>
        /\ outParse.ok <=> Cardinality(SlashPos(argProcedure)) = 2
        /\ outParse.ok =>
               /\ outParse.service = ServiceOf(argProcedure)
               /\ outParse.method = MethodOf(argProcedure)
        /\ IsSlashSM(argProcedure) => outParse.ok
        /\ argProcedure \in { <<Slash, "a">>, <<"a">>,
                              <<Slash, "a", Slash, "b", Slash, "a">> }
               => ~outParse.ok

\* C5 witness: /ab/ba was parsed into (ab, ba).
C5_Witness ==
    /\ fn = "parse" /\ fnDone
    /\ argProcedure = <<Slash, "a", "b", Slash, "b", "a">>
    /\ outParse = [ok |-> TRUE, service |-> "ab", method |-> "ba"]

\* C6: the wrapped executor is invoked with the context and the request the
\* call received, and the call returns exactly the response and the error
\* the wrapped executor returned.
C6_Transparent ==
    \A c \in Calls :
        /\ calls[c].pc \in AfterNextCalled
               => /\ calls[c].nextCalls = 1
                  /\ calls[c].nextCtx = CtxOf(c) /\ calls[c].ctx = CtxOf(c)
                  /\ calls[c].nextReq = ReqOf(c) /\ calls[c].req = ReqOf(c)
        /\ calls[c].pc = "Returned"
               => /\ calls[c].resp = calls[c].nextResp
                  /\ calls[c].err = calls[c].nextErr

\* C6 witness: one call returned the executor's error, another its response.
C6_Witness ==
    \E c, d \in Calls :
        /\ calls[c].pc = "Returned" /\ calls[c].err = ConnectErr(4)
        /\ calls[c].resp = NilResp
        /\ calls[d].pc = "Returned" /\ calls[d].err = NilErr
        /\ calls[d].resp = RespOf(d)

\* C7: for every role, the duration histogram of a tuple holds one
\* observation per call of that role and tuple whose wrapped executor has
\* returned and whose duration update is done, and each handled counter holds
\* one count per call of that role and tuple that ended with that code and
\* whose handled update is done, whatever the returned error.
C7_HandledOncePerCall ==
    \A client \in BOOLEAN :
        /\ \A lvs \in DOMAIN DurationOf(client) \cup ExpectedTuples :
               Value(DurationOf(client), lvs)
                   = Cardinality(CallsAt(client, lvs, AfterDuration))
        /\ \A t \in DOMAIN HandledOf(client)
                       \cup {<<ExpectedCode(calls[c].nextErr)>>
                                 \o ExpectedTuple(calls[c]) :
                                 c \in CallsOfRole(client, AfterHandled)} :
               Value(HandledOf(client), t)
                   = Cardinality(
                       {c \in CallsAt(client, <<t[2], t[3], t[4]>>, AfterHandled) :
                           ExpectedCode(calls[c].nextErr) = t[1]})

\* C7 witness: every call has returned, one cancelled, one past its
\* deadline.
C7_Witness ==
    /\ \A c \in Calls : calls[c].pc = "Returned"
    /\ \E c, d \in Calls :
        /\ calls[c].nextErr = ConnectErr(1)
        /\ calls[d].nextErr = ConnectErr(4)
        /\ calls[c].isClient /\ ~calls[d].isClient

\* C8: requesting a streaming wrapper panics and yields no executor, and the
\* request changes no metric family and no call.
C8_StreamingWrapIsFatal ==
    /\ [](streamWrap.requested # "none"
              => streamWrap.panicked /\ streamWrap.executor = "none")
    /\ [][streamWrap' # streamWrap
              => metrics' = metrics /\ calls' = calls]_vars

\* C8 witness: a streaming handler wrapper was requested after calls had
\* been counted.
C8_Witness ==
    /\ streamWrap.requested = "handler"
    /\ serverHandled # EmptyVec
    /\ clientHandled # EmptyVec

\* C9: the outcome classifier labels a nil error "ok", an error carrying one
\* of the sixteen codes with that code's name (not-found: "not_found"), an
\* error carrying no code "unknown", and no non-nil error "ok".
C9_OutcomeClassifier ==
    (fn = "code" /\ fnDone) =>
        /\ argErr = NilErr => outLabel = "ok"
        /\ argErr # NilErr => outLabel # "ok"
        /\ argErr = PlainErr => outLabel = "unknown"
        /\ (argErr.kind \in {"connect", "wrapped"} /\ argErr.code \in 1..16)
               => outLabel = CodeNames[argErr.code]
        /\ argErr = ConnectErr(5) => outLabel = "not_found"

\* C9 witness: an error carrying not-found was classified.
C9_Witness ==
    /\ fn = "code" /\ fnDone
    /\ argErr = ConnectErr(5)
    /\ outLabel = "not_found"

\* C10: the call-shape classifier labels the four supported shapes "unary",
\* "client_stream", "server_stream" and "bidi_stream", and every other shape
\* value with the empty string.
C10_ShapeLabels ==
    (fn = "streamType" /\ fnDone) =>
        /\ argShape = StreamTypeUnary  => outLabel = "unary"
        /\ argShape = StreamTypeClient => outLabel = "client_stream"
        /\ argShape = StreamTypeServer => outLabel = "server_stream"
        /\ argShape = StreamTypeBidi   => outLabel = "bidi_stream"
        /\ argShape \notin {StreamTypeUnary, StreamTypeClient,
                            StreamTypeServer, StreamTypeBidi}
               => outLabel = ""

\* C10 witness: an unsupported shape value was classified.
C10_Witness ==
    /\ fn = "streamType" /\ fnDone
    /\ argShape = 4
    /\ outLabel = ""

\* The elements of a sequence, and what a claim about a family reads of it:
\* its name and its set of label keys.
Range(seq) == {seq[i] : i \in DOMAIN seq}

Shape(d) == [name |-> d.name, keys |-> Range(d.labels)]

\* The families of the registry that are not some other code's.
InterceptorFamilies == registry \ OtherFamilies

\* C11 (as stated): the six families are declared with the label keys
\* method, service, type, and grpc_code for the handled counters.
C11_SixFamiliesShortKeys ==
    {Shape(d) : d \in InterceptorFamilies} =
        { [name |-> "grpc_client_started_total",
           keys |-> {"method", "service", "type"}],
          [name |-> "grpc_client_handled_total",
           keys |-> {"grpc_code", "method", "service", "type"}],
          [name |-> "grpc_client_handling_seconds_bucket",
           keys |-> {"method", "service", "type"}],
          [name |-> "grpc_server_started_total",
           keys |-> {"method", "service", "type"}],
          [name |-> "grpc_server_handled_total",
           keys |-> {"grpc_code", "method", "service", "type"}],
          [name |-> "grpc_server_handling_seconds_bucket",
           keys |-> {"method", "service", "type"}] }

\* C11 (amended): NewInterceptor declares exactly six families, with these
\* names, and with the label keys grpc_method, grpc_service, grpc_type, and
\* grpc_code for the handled counters.
C11_SixFamiliesGrpcKeys ==
    /\ Cardinality(InterceptorFamilies) = 6
    /\ {Shape(d) : d \in InterceptorFamilies} =
        { [name |-> "grpc_client_started_total",
           keys |-> {"grpc_method", "grpc_service", "grpc_type"}],
          [name |-> "grpc_client_handled_total",
           keys |-> {"grpc_code", "grpc_method", "grpc_service", "grpc_type"}],
          [name |-> "grpc_client_handling_seconds_bucket",
           keys |-> {"grpc_method", "grpc_service", "grpc_type"}],
          [name |-> "grpc_server_started_total",
           keys |-> {"grpc_method", "grpc_service", "grpc_type"}],
          [name |-> "grpc_server_handled_total",
           keys |-> {"grpc_code", "grpc_method", "grpc_service", "grpc_type"}],
          [name |-> "grpc_server_handling_seconds_bucket",
           keys |-> {"grpc_method", "grpc_service", "grpc_type"}] }

\* C11 witness: the six families stand in a registry that other code shares,
\* and a declaration of one of their names with other keys was refused.
C11_Witness ==
    /\ OtherFamilies \subseteq registry
    /\ \E d \in registry :
          /\ d.name = "grpc_server_handled_total"
          /\ d.labels = <<"grpc_code", "grpc_method", "grpc_service", "grpc_type">>
    /\ setup.op = "declare" /\ setup.family \in ConflictingFamilies
    /\ setup.panicked

\* C12 (as stated): declaring a family again with identical shape, as a
\* second run of NewInterceptor against the same registry does, does not
\* fail, while declaring its name with a conflicting shape is fatal.
C12_IdenticalRedeclareIsNoOp ==
    /\ setup.op = "NewInterceptor" => ~setup.panicked
    /\ (setup.op = "declare" /\ setup.family \in FamilySet) => ~setup.panicked
    /\ (setup.op = "declare" /\ setup.family \in ConflictingFamilies)
           => setup.panicked

\* C12 (amended): declaring a family whose name is registered already is a
\* fatal setup error whether the shape is identical or conflicting, so a
\* second run of NewInterceptor against the same registry panics; the failed
\* declaration leaves the registry and the aggregate values unchanged, and
\* a family of a new name is added to the registry.
C12_RedeclareIsFatal ==
    [][setup' # setup =>
          /\ metrics' = metrics
          /\ ( \/ setup'.op = "NewInterceptor"
               \/ \E e \in registry : e.name = setup'.family.name )
                 => setup'.panicked /\ registry' = registry
          /\ ( /\ setup'.op = "declare"
               /\ ~\E e \in registry : e.name = setup'.family.name )
                 => /\ ~setup'.panicked
                    /\ registry' = registry \cup {setup'.family}]_vars

\* C12 witness: a second run of NewInterceptor has panicked while the
\* vectors of the first held counts.
C12_Witness ==
    /\ setup.op = "NewInterceptor" /\ setup.panicked
    /\ serverHandled # EmptyVec /\ clientHandled # EmptyVec

\* The steps a call may take, as pairs of positions.
CallSteps ==
    { <<"Idle", "Created">>, <<"Idle", "Rejected">>,
      <<"Created", "StartedRecorded">>,
      <<"StartedRecorded", "Executing">>,
      <<"Executing", "NextReturned">>,
      <<"NextReturned", "DurationRecorded">>,
      <<"DurationRecorded", "CompletedRecorded">>,
      <<"CompletedRecorded", "Returned">> }

\* C13: every well-formed call of either role moves through Created,
\* Started-recorded, Executing, Completed-recorded, Returned in that order:
\* the step into Started-recorded adds its started count, the step into
\* Executing is the one invocation of the wrapped executor, and its duration
\* and handled counts are added after the wrapped executor has returned, on
\* the way to Completed-recorded, and at no other step.
C13_CallStateMachine ==
    [][\A c \in Calls :
          calls'[c].pc # calls[c].pc =>
              LET k    == calls[c]
                  to   == calls'[c].pc
                  lvs  == ExpectedTuple(calls'[c])
                  hlvs == <<ExpectedCode(calls'[c].nextErr)>> \o lvs
              IN
              /\ <<k.pc, to>> \in CallSteps
              /\ calls'[c].nextCalls
                     = IF to = "Executing" THEN 1 ELSE k.nextCalls
              /\ to \in AfterStarted =>
                   /\ Value(StartedOf(k.isClient)', lvs)
                          = Value(StartedOf(k.isClient), lvs)
                              + (IF to = "StartedRecorded" THEN 1 ELSE 0)
                   /\ Value(DurationOf(k.isClient)', lvs)
                          = Value(DurationOf(k.isClient), lvs)
                              + (IF to = "DurationRecorded" THEN 1 ELSE 0)
                   /\ to \in {"NextReturned", "DurationRecorded",
                              "CompletedRecorded", "Returned"} =>
                          Value(HandledOf(k.isClient)', hlvs)
                              = Value(HandledOf(k.isClient), hlvs)
                                  + (IF to = "CompletedRecorded" THEN 1 ELSE 0)
      ]_vars

\* C14: no call ever waits for another: whatever the other calls are doing,
\* blocked in the wrapped executor included, a call that has been invoked can
\* take its next step of the interceptor.
C14_NoCallBlocksAnother ==
    \A c \in Calls :
        /\ calls[c].pc = "Created"           => ENABLED RecordStarted(c)
        /\ calls[c].pc = "StartedRecorded"   => ENABLED InvokeNext(c)
        /\ calls[c].pc = "NextReturned"      => ENABLED ObserveDuration(c)
        /\ calls[c].pc = "DurationRecorded"  => ENABLED RecordHandled(c)
        /\ calls[c].pc = "CompletedRecorded" => ENABLED Return(c)

\* C14 witness: a call is about to record its started count, and another
\* its handled count, while a call of the same role and tuple is blocked in
\* the wrapped executor.
C14_Witness ==
    \E c, d \in Calls :
        /\ c # d
        /\ calls[c].pc = "Executing"
        /\ calls[d].pc \in {"Created", "DurationRecorded"}
        /\ calls[d].isClient = calls[c].isClient
        /\ calls[d].procedure = calls[c].procedure

\* The vector stored in a field of the Interceptor, the family declared for
\* it, and the child tuple of the family that carries the given value in
\* each of its dimensions.
VecOf(field) ==
    CASE field = "clientStarted"  -> clientStarted
      [] field = "clientHandled"  -> clientHandled
      [] field = "clientDuration" -> clientDuration
      [] field = "serverStarted"  -> serverStarted
      [] field = "serverHandled"  -> serverHandled
      [] field = "serverDuration" -> serverDuration

FamilyOf(field) ==
    Families[CHOOSE i \in DOMAIN Families : Families[i].field = field]

ChildOf(field, dims) ==
    LET keys == FamilyOf(field).labels IN
    [i \in DOMAIN keys |-> dims[keys[i]]]

DimsOf(k) ==
    [grpc_method  |-> k.procedure[4],
     grpc_service |-> k.procedure[2],
     grpc_type    |-> "unary",
     grpc_code    |-> ExpectedCode(k.nextErr)]

FieldsOf(client) ==
    IF client THEN <<"clientStarted", "clientDuration", "clientHandled">>
    ELSE <<"serverStarted", "serverDuration", "serverHandled">>

HelloCalls ==
    {c \in WellFormedCalls :
        /\ ~calls[c].isClient
        /\ calls[c].procedure = <<Slash, "helloworld.Greeter", Slash, "SayHello">>}

Grows(old, new) ==
    /\ DOMAIN old \subseteq DOMAIN new
    /\ \A t \in DOMAIN new : Value(new, t) - Value(old, t) \in {0, 1}

\* C16: in every step, every child of every family is kept and its count
\* grows by 1 or stays as it is.
C16_AggregatesOnlyGrow ==
    [][ /\ Grows(clientStarted, clientStarted')
        /\ Grows(clientHandled, clientHandled')
        /\ Grows(clientDuration, clientDuration')
        /\ Grows(serverStarted, serverStarted')
        /\ Grows(serverHandled, serverHandled')
        /\ Grows(serverDuration, serverDuration') ]_vars

\* C16 witness: a child has been incremented twice while other children
\* exist.
C16_Witness ==
    /\ \E t \in DOMAIN serverHandled : serverHandled[t] = 2
    /\ \E t \in DOMAIN serverDuration : serverDuration[t] = 2
    /\ \E t \in DOMAIN serverStarted : serverStarted[t] = 2

\* C17: the children of every family are exactly the tuples given by the
\* identifier, role and shape of the calls that have made the update, with
\* their outcome code for the handled counters; so two returned calls with
\* the same identifier, role, shape and outcome and different requests and
\* responses are counted under the same children, once each.
C17_LabelsFromMetadataOnly ==
    /\ \A client \in BOOLEAN :
         /\ DOMAIN StartedOf(client) =
              {ExpectedTuple(calls[c]) : c \in CallsOfRole(client, AfterStarted)}
         /\ DOMAIN DurationOf(client) =
              {ExpectedTuple(calls[c]) : c \in CallsOfRole(client, AfterDuration)}
         /\ DOMAIN HandledOf(client) =
              {<<ExpectedCode(calls[c].nextErr)>> \o ExpectedTuple(calls[c]) :
                  c \in CallsOfRole(client, AfterHandled)}
    /\ \A c, d \in WellFormedCalls :
         ( /\ c # d
           /\ calls[c].pc = "Returned" /\ calls[d].pc = "Returned"
           /\ calls[c].procedure = calls[d].procedure
           /\ calls[c].isClient = calls[d].isClient
           /\ calls[c].shape = calls[d].shape
           /\ ExpectedCode(calls[c].nextErr) = ExpectedCode(calls[d].nextErr)
           /\ calls[c].req # calls[d].req )
         => LET lvs == ExpectedTuple(calls[c])
                n == Cardinality(
                       {e \in CallsAt(calls[c].isClient, lvs, AfterHandled) :
                           ExpectedCode(calls[e].nextErr)
                               = ExpectedCode(calls[c].nextErr)})
            IN /\ n >= 2
               /\ Value(HandledOf(calls[c].isClient),
                        <<ExpectedCode(calls[c].nextErr)>> \o lvs) = n
               /\ Value(DurationOf(calls[c].isClient), lvs) >= n

\* C17 witness: two calls with the same identifier, role, shape and outcome
\* and different requests and responses have returned.
C17_Witness ==
    \E c, d \in Calls :
        /\ c # d
        /\ calls[c].pc = "Returned" /\ calls[d].pc = "Returned"
        /\ calls[c].procedure = calls[d].procedure
        /\ calls[c].isClient /\ calls[d].isClient
        /\ calls[c].err = NilErr /\ calls[d].err = NilErr
        /\ calls[c].req # calls[d].req /\ calls[c].resp # calls[d].resp

\* C18: a step of a well-formed call leaves the three families of the other
\* role as they are and, in the families of its own role, leaves every child
\* of another (method, service, type) tuple as it is.
C18_OnlyOwnRoleAndTuple ==
    [][\A c \in Calls :
          (calls'[c].pc # calls[c].pc /\ calls'[c].pc # "Rejected") =>
              LET own == calls'[c].isClient
                  lvs == ExpectedTuple(calls'[c])
                  Same(old, new, t) ==
                      /\ (t \in DOMAIN new) <=> (t \in DOMAIN old)
                      /\ Value(new, t) = Value(old, t)
                  startedNew == IF own THEN clientStarted' ELSE serverStarted'
                  handledNew == IF own THEN clientHandled' ELSE serverHandled'
                  durationNew == IF own THEN clientDuration' ELSE serverDuration'
              IN
              /\ IF own
                    THEN UNCHANGED << serverStarted, serverHandled, serverDuration >>
                    ELSE UNCHANGED << clientStarted, clientHandled, clientDuration >>
              /\ \A t \in (DOMAIN StartedOf(own) \cup DOMAIN startedNew) \ {lvs} :
                    Same(StartedOf(own), startedNew, t)
              /\ \A t \in (DOMAIN DurationOf(own) \cup DOMAIN durationNew) \ {lvs} :
                    Same(DurationOf(own), durationNew, t)
              /\ \A t \in DOMAIN HandledOf(own) \cup DOMAIN handledNew :
                    <<t[2], t[3], t[4]>> # lvs
                        => Same(HandledOf(own), handledNew, t)
      ]_vars

\* C18 witness: a client call and a server call of different tuples have
\* both been counted.
C18_Witness ==
    \E c, d \in Calls :
        /\ calls[c].isClient /\ ~calls[d].isClient
        /\ calls[c].pc = "Returned" /\ calls[d].pc = "Returned"
        /\ calls[c].procedure # calls[d].procedure

\* C19: for every role and (method, service, type) tuple, the duration
\* histogram's observation count equals the handled counter summed over all
\* codes plus the number of calls of that role and tuple between their
\* duration update and their handled update; so it is never below the
\* handled sum and equals it when no such call is in flight.
C19_DurationVersusHandled ==
    \A client \in BOOLEAN :
        \A lvs \in TuplesOf(client) \cup ExpectedTuples :
            /\ Value(DurationOf(client), lvs)
                   = HandledSum(client, lvs)
                       + Cardinality(CallsAt(client, lvs, {"DurationRecorded"}))
            /\ Value(DurationOf(client), lvs) >= HandledSum(client, lvs)
            /\ (\A c \in Calls : calls[c].pc \in {"Idle", "Rejected", "Returned"})
                   => Value(DurationOf(client), lvs) = HandledSum(client, lvs)

\* C19 witness: one call of a tuple is between its duration update and its
\* handled update while another has returned.
C19_Witness ==
    \E c, d \in Calls :
        /\ calls[c].pc = "DurationRecorded" /\ calls[d].pc = "Returned"
        /\ calls[c].isClient = calls[d].isClient
        /\ calls[c].procedure = calls[d].procedure
        /\ Value(DurationOf(calls[c].isClient), ExpectedTuple(calls[c])) = 2
        /\ HandledSum(calls[c].isClient, ExpectedTuple(calls[c])) = 1

====
